---- MODULE Spec2Model ----
(***************************************************************************)
(* Model of the TRI backend (src/main.py, src/schemas.py): the order       *)
(* collection, the invoice sequence collection and the HTTP handlers,      *)
(* each handler split at its store round trips so that requests            *)
(* interleave the way concurrent workers and process instances do.         *)
(***************************************************************************)
EXTENDS Integers, Sequences, FiniteSets, TLC

(* ---------------------------------------------------------------- bounds *)
MaxReqs == 2          \* requests issued in one behaviour
MaxClock == 1         \* wall-clock ticks; one tick is one year
MaxStored == 52       \* orders already stored when SpecList starts

(* ------------------------------------------------------ program constants *)
PadWidth == 5         \* {num:05d}
ListLimit == 50       \* .limit(50)
BaseYear == 2026      \* datetime.now().year at clock 0

(* --------------------------------------------------------------- options *)
None == <<>>
Some(x) == <<x>>
IsSome(o) == o # <<>>
Val(o) == o[1]

(* ------------------------------------------------------------- ObjectIds *)
\* str(ObjectId) is 24 hex characters; head = characters 1..16,
\* mid = characters 17..18, tail = characters 19..24.
IdHeads == {1, 2}
IdMids == {1}
IdTails == {1, 2}
ObjectIds == [head : IdHeads, mid : IdMids, tail : IdTails]
Last8(id) == <<id.mid, id.tail>>
Last6(id) == id.tail

GatewayOrderId(id) == <<"order_", Last8(id)[1], Last8(id)[2]>>
DefaultPaymentId(id) == <<"pay_", Last6(id)>>

(* ------------------------------------------------------------ formatting *)
RECURSIVE Digits(_)
Digits(n) == IF n < 10 THEN <<n>> ELSE Append(Digits(n \div 10), n % 10)

RECURSIVE ZeroPad(_, _)
ZeroPad(ds, w) == IF Len(ds) >= w THEN ds ELSE ZeroPad(<<0>> \o ds, w)

RECURSIVE ParseDigits(_)
ParseDigits(ds) ==
    IF ds = <<>> THEN 0
    ELSE 10 * ParseDigits(SubSeq(ds, 1, Len(ds) - 1)) + ds[Len(ds)]

FormatSuffix_Truncating(num) == ZeroPad(Digits(num % 100000), PadWidth)
FormatSuffix(num) == ZeroPad(Digits(num), PadWidth)

FormatInvoice(year, num) ==
    [prefix |-> "TRI", year |-> year, suffix |-> FormatSuffix(num)]

YearOf(t) == BaseYear + t

(* ----------------------------------------------------------------- state *)
VARIABLES
    dbConfigured,   \* db is not None
    clock,          \* wall clock
    orderColl,      \* db["order"], in insertion (natural) order
    seqColl,        \* db["invoicesequence"], a set of documents
    pc,             \* per request: position in its handler
    kind,           \* per request: the handler it runs
    order,          \* verify_payment: local `order`
    insertedId,     \* create_order: result.inserted_id
    paymentArg,     \* verify_payment: payload.payment_id
    amount,         \* create_order: local `amount`
    orderIdArg,     \* history: the order_id a verify_payment or get_invoice was given
    invoice,        \* verify_payment: local `invoice_number`
    resp,           \* per request: HTTP response
    wrote,          \* history: the request performed its update_one on the order
    allocated,      \* history: successful allocations, in store order
    startNumber     \* history: last_number at the start (0 when no record)

vars == <<dbConfigured, clock, orderColl, seqColl, pc, kind, order, insertedId,
          paymentArg, amount, orderIdArg, invoice, resp, wrote, allocated,
          startNumber>>

Reqs == 1..MaxReqs

(* ---------------------------------------------------------------- inputs *)
Emails == {"a@tri", "b@tri"}
Item(pid, q, p) == [product_id |-> pid, title |-> pid, quantity |-> q, price |-> p]
OrderPayloads ==
    {[user_email |-> "a@tri", items |-> <<>>],
     [user_email |-> "b@tri", items |-> <<Item("p1", 2, 3), Item("p2", 1, 4)>>]}
OrderIdInputs == {GatewayOrderId(id) : id \in ObjectIds} \cup {<<"order_", 0, 0>>}
PaymentIdInputs == {None, Some(<<>>), Some(<<"pay_ext">>)}
StartNumbers == {99998}

(* ------------------------------------------------ the order collection *)
RECURSIVE SumSeq(_)
SumSeq(s) == IF s = <<>> THEN 0 ELSE Head(s) + SumSeq(Tail(s))

\* float(sum(i.price * i.quantity for i in items)); the prices drawn are
\* whole numbers, on which the float sum is exact
_order_total_PricesOnly(items) == SumSeq([k \in 1..Len(items) |-> items[k].price])
_order_total(items) == SumSeq([k \in 1..Len(items) |-> items[k].price * items[k].quantity])

NewOrderDoc(id, email, items, total, now) ==
    [_id |-> id, user_email |-> email, items |-> items,
     amount |-> total, status |-> "created",
     created_at |-> now, updated_at |-> now,
     order_id |-> None, payment_id |-> None, invoice_number |-> None]

UsedIds == {orderColl[k]._id : k \in 1..Len(orderColl)}

\* find_one({"order_id": oid}): the first match in natural order, or None
Matches(oid) == {k \in 1..Len(orderColl) : orderColl[k].order_id = Some(oid)}
FindOneByOrderId(oid) ==
    IF Matches(oid) = {} THEN None
    ELSE Some(orderColl[CHOOSE k \in Matches(oid) : \A j \in Matches(oid) : k <= j])

\* {"$set": fields} applied to a document
SetFields(doc, fields) ==
    [f \in DOMAIN doc |-> IF f \in DOMAIN fields THEN fields[f] ELSE doc[f]]

\* update_one({"_id": id}, {"$set": fields})
UpdateOneById(id, fields) ==
    [k \in 1..Len(orderColl) |->
        IF orderColl[k]._id = id THEN SetFields(orderColl[k], fields) ELSE orderColl[k]]

\* `payload.payment_id or f"pay_{...}"`: None and "" are falsy
Truthy(optStr) == IsSome(optStr) /\ Val(optStr) # <<>>
PaymentIdFor(arg, id) == IF Truthy(arg) THEN Val(arg) ELSE DefaultPaymentId(id)

\* the $set of verify_payment; inv is the handler's local invoice_number
PaidFields_StatusCreated(payId, inv, now) ==
    [status |-> "created", payment_id |-> Some(payId), invoice_number |-> inv,
     updated_at |-> now]
PaidFields_StatusFulfilled(payId, inv, now) ==
    [status |-> "fulfilled", payment_id |-> Some(payId), invoice_number |-> inv,
     updated_at |-> now]
PaidFields_StatusOnly(payId, inv, now) ==
    [status |-> "paid", updated_at |-> now]
PaidFields(payId, inv, now) ==
    [status |-> "paid", payment_id |-> Some(payId), invoice_number |-> inv,
     updated_at |-> now]

\* the statements of verify_payment that call the store, in program order
VerifyProgram_UpdateFirst == <<"v_find", "v_update", "v_alloc">>
VerifyProgram == <<"v_find", "v_alloc", "v_update">>
CreateProgram == <<"c_insert", "c_update">>

NextPc(prog, cur) ==
    LET k == CHOOSE j \in 1..Len(prog) : prog[j] = cur
    IN IF k = Len(prog) THEN "done" ELSE prog[k + 1]

\* `if not order`
OrderFound_Always(o) == TRUE
OrderFound(o) == IsSome(o)

(* --------------------------------------- the invoice sequence collection *)
SeqId == "seq"
SeqMatches == {d \in seqColl : d._id = SeqId}

IncLastNumber_NoIncrement(n) == n
IncLastNumber_Decrement(n) == n - 1
IncLastNumber(n) == n + 1

UpsertDoc_FromSchemaDefault == [_id |-> SeqId, last_number |-> 0]
\* upsert with {"$inc": {"last_number": 1}}: the absent field counts as 0
UpsertDoc == [_id |-> SeqId, last_number |-> IncLastNumber(0)]

SeqCollAfterInc_YearlyReset ==
    IF allocated # <<>> /\ allocated[Len(allocated)].inv.year # YearOf(clock)
      THEN {[_id |-> SeqId, last_number |-> 1]}
    ELSE IF SeqMatches = {} THEN seqColl \cup {UpsertDoc}
    ELSE LET d == CHOOSE x \in SeqMatches : TRUE
         IN (seqColl \ {d}) \cup {[d EXCEPT !.last_number = IncLastNumber(@)]}

\* find_one_and_update({"_id": "seq"}, {"$inc": {"last_number": 1}}, upsert=True):
\* the collection afterwards
SeqCollAfterInc ==
    IF SeqMatches = {} THEN seqColl \cup {UpsertDoc}
    ELSE LET d == CHOOSE x \in SeqMatches : TRUE
         IN (seqColl \ {d}) \cup {[d EXCEPT !.last_number = IncLastNumber(@)]}

\* return_document=True is ReturnDocument.AFTER: the document as updated
ReturnedSeqDoc_Before(before, after) ==
    IF \E d \in before : d._id = SeqId
      THEN CHOOSE d \in before : d._id = SeqId
      ELSE [_id |-> SeqId, last_number |-> 0]
ReturnedSeqDoc(before, after) == CHOOSE d \in after : d._id = SeqId

\* seq.get("last_number", 1): the returned document always has the field
GetLastNumber(seq) == seq.last_number

LastNumber == IF SeqMatches = {} THEN 0 ELSE (CHOOSE d \in SeqMatches : TRUE).last_number

(* ------------------------------------------------------------- responses *)
NoResp == [status |-> 0, body |-> <<>>]
Resp(code, body) == [status |-> code, body |-> body]

\* the handler returns or raises: the response is sent and its locals go
\* out of scope
Finish(r, code, body) ==
    /\ pc' = [pc EXCEPT ![r] = "done"]
    /\ resp' = [resp EXCEPT ![r] = Resp(code, body)]
    /\ paymentArg' = [paymentArg EXCEPT ![r] = None]
    /\ amount' = [amount EXCEPT ![r] = None]
    /\ insertedId' = [insertedId EXCEPT ![r] = None]
    /\ order' = [order EXCEPT ![r] = None]
    /\ invoice' = [invoice EXCEPT ![r] = None]

\* the handler goes on to its next store call
Goto(r, label) ==
    /\ pc' = [pc EXCEPT ![r] = label]
    /\ UNCHANGED resp

Locals == <<paymentArg, amount, insertedId, order, invoice>>

\* requests take their slots in order
CanStart(r) == pc[r] = "idle" /\ (IF r = 1 THEN TRUE ELSE pc[r - 1] # "idle")

(* ------------------------------------------------------------------ Init *)
\* a store that has handed out k numbers holds an order verified k times
InitialPaidOrder(k) ==
    LET id == [head |-> 1, mid |-> 1, tail |-> 1]
    IN [_id |-> id, user_email |-> "a@tri", items |-> <<>>, amount |-> 0,
        status |-> "paid", created_at |-> 0, updated_at |-> 0,
        order_id |-> Some(GatewayOrderId(id)),
        payment_id |-> Some(DefaultPaymentId(id)),
        invoice_number |-> Some(FormatInvoice(YearOf(0), k))]

Init ==
    /\ dbConfigured \in BOOLEAN
    /\ clock = 0
    /\ seqColl \in {{}} \cup
         (IF dbConfigured THEN {{[_id |-> SeqId, last_number |-> k]} : k \in StartNumbers} ELSE {})
    /\ orderColl = IF seqColl = {} THEN <<>> ELSE <<InitialPaidOrder(LastNumber)>>
    /\ pc = [r \in Reqs |-> "idle"]
    /\ kind = [r \in Reqs |-> "none"]
    /\ order = [r \in Reqs |-> None]
    /\ insertedId = [r \in Reqs |-> None]
    /\ paymentArg = [r \in Reqs |-> None]
    /\ amount = [r \in Reqs |-> None]
    /\ orderIdArg = [r \in Reqs |-> None]
    /\ invoice = [r \in Reqs |-> None]
    /\ resp = [r \in Reqs |-> NoResp]
    /\ wrote = [r \in Reqs |-> FALSE]
    /\ allocated = <<>>
    /\ startNumber = LastNumber

(* ------------------------------------------------------------ environment *)
Tick ==
    /\ clock < MaxClock
    /\ clock' = clock + 1
    /\ UNCHANGED <<dbConfigured, orderColl, seqColl, pc, kind, order, insertedId,
                   paymentArg, amount, orderIdArg, invoice, resp, wrote, allocated,
                   startNumber>>

\* `if db is None`
DbIsNone_Never == FALSE
DbIsNone == ~dbConfigured

\* a call to the store either is carried out or raises (store unreachable);
\* an exception no handler catches becomes a 500 response
StoreOutcomes == BOOLEAN
\* (the traceback names the call that raised)
StoreError(r) == Finish(r, 500, <<"Internal Server Error", pc[r]>>)
NotConfigured(r) == Finish(r, 500, <<"Database not configured">>)

(* ----------------------------------------------------------- create_order *)
CreateOrder_Insert(r) ==
    /\ CanStart(r)
    /\ kind' = [kind EXCEPT ![r] = "create"]
    /\ IF DbIsNone
         THEN NotConfigured(r) /\ UNCHANGED orderColl
         ELSE \E ok \in StoreOutcomes :
                IF ~ok
                  THEN StoreError(r) /\ UNCHANGED orderColl
                  ELSE /\ \E id \in ObjectIds \ UsedIds, payload \in OrderPayloads :
                            LET total == _order_total(payload.items)
                            IN /\ amount' = [amount EXCEPT ![r] = Some(total)]
                               /\ orderColl' = Append(orderColl,
                                      NewOrderDoc(id, payload.user_email, payload.items,
                                                  total, clock))
                               /\ insertedId' = [insertedId EXCEPT ![r] = Some(id)]
                       /\ Goto(r, NextPc(CreateProgram, "c_insert"))
                       /\ UNCHANGED <<paymentArg, order, invoice>>
    /\ UNCHANGED <<dbConfigured, clock, seqColl, orderIdArg, wrote, allocated, startNumber>>

CreateOrder_SetOrderId(r) ==
    /\ pc[r] = "c_update"
    /\ \E ok \in StoreOutcomes :
         IF ~ok
           THEN StoreError(r) /\ UNCHANGED orderColl
           ELSE LET id == Val(insertedId[r])
                IN /\ orderColl' = UpdateOneById(id, [order_id |-> Some(GatewayOrderId(id))])
                   /\ Finish(r, 200, [_id |-> id, order_id |-> GatewayOrderId(id),
                                      amount |-> Val(amount[r]), currency |-> "INR",
                                      status |-> "created"])
    /\ UNCHANGED <<dbConfigured, clock, seqColl, kind, orderIdArg, wrote, allocated,
                   startNumber>>

(* --------------------------------------------------------- verify_payment *)
VerifyPayment_Find(r) ==
    /\ CanStart(r)
    /\ kind' = [kind EXCEPT ![r] = "verify"]
    /\ \E oid \in OrderIdInputs :
         /\ orderIdArg' = [orderIdArg EXCEPT ![r] = Some(oid)]
         /\ IF DbIsNone
              THEN NotConfigured(r)
              ELSE \E ok \in StoreOutcomes :
                     IF ~ok
                       THEN StoreError(r)
                       ELSE LET found == FindOneByOrderId(oid)
                            IN IF ~OrderFound(found)
                                 THEN Finish(r, 404, <<"Order not found">>)
                                 ELSE \E pay \in PaymentIdInputs :
                                        /\ Goto(r, NextPc(VerifyProgram, "v_find"))
                                        /\ order' = [order EXCEPT ![r] = found]
                                        /\ paymentArg' = [paymentArg EXCEPT ![r] = pay]
                                        /\ UNCHANGED <<amount, insertedId, invoice>>
    /\ UNCHANGED <<dbConfigured, clock, orderColl, seqColl, wrote, allocated, startNumber>>

\* _generate_invoice_number, called from verify_payment
VerifyPayment_Allocate(r) ==
    /\ pc[r] = "v_alloc"
    /\ \E ok \in StoreOutcomes :
         IF ~ok
           THEN StoreError(r) /\ UNCHANGED <<seqColl, allocated>>
           ELSE LET seq == ReturnedSeqDoc(seqColl, SeqCollAfterInc)
                    num == GetLastNumber(seq)
                    inv == FormatInvoice(YearOf(clock), num)
                    next == NextPc(VerifyProgram, "v_alloc")
                IN /\ seqColl' = SeqCollAfterInc
                   /\ allocated' = Append(allocated, [by |-> r, num |-> num, inv |-> inv])
                   /\ IF next = "done"
                        THEN Finish(r, 200, [status |-> "paid", invoice_number |-> Some(inv)])
                        ELSE /\ Goto(r, next)
                             /\ invoice' = [invoice EXCEPT ![r] = Some(inv)]
                             /\ UNCHANGED <<paymentArg, amount, insertedId, order>>
    /\ UNCHANGED <<dbConfigured, clock, orderColl, kind, orderIdArg, wrote, startNumber>>

VerifyPayment_Update(r) ==
    /\ pc[r] = "v_update"
    /\ \E ok \in StoreOutcomes :
         IF ~ok
           THEN StoreError(r) /\ UNCHANGED <<orderColl, wrote>>
           ELSE LET id == Val(order[r])._id
                    next == NextPc(VerifyProgram, "v_update")
                IN /\ orderColl' = UpdateOneById(id,
                          PaidFields(PaymentIdFor(paymentArg[r], id), invoice[r], clock))
                   /\ wrote' = [wrote EXCEPT ![r] = TRUE]
                   /\ IF next = "done"
                        THEN Finish(r, 200, [status |-> "paid", invoice_number |-> invoice[r]])
                        ELSE Goto(r, next) /\ UNCHANGED Locals
    /\ UNCHANGED <<dbConfigured, clock, seqColl, kind, orderIdArg, allocated, startNumber>>

(* ---------------------------------------------------- read-only handlers *)
ReadOnlyFrame ==
    UNCHANGED <<dbConfigured, clock, orderColl, seqColl, wrote, allocated, startNumber>>

\* the orderings of index set S of orderColl that sort("created_at", -1) may produce
RECURSIVE NewestFirst(_)
NewestFirst(S) ==
    IF S = {} THEN {<<>>}
    ELSE UNION {{<<orderColl[k]>> \o rest : rest \in NewestFirst(S \ {k})} :
                k \in {j \in S : \A i \in S : orderColl[i].created_at <= orderColl[j].created_at}}

Limit_NoLimit(s, n) == s
Limit(s, n) == SubSeq(s, 1, IF Len(s) < n THEN Len(s) ELSE n)

ListOrders(r) ==
    /\ CanStart(r)
    /\ kind' = [kind EXCEPT ![r] = "list"]
    /\ IF DbIsNone THEN NotConfigured(r)
       ELSE \E ok \in StoreOutcomes :
              IF ~ok THEN StoreError(r)
              ELSE \E email \in Emails :
                     \E cur \in NewestFirst({k \in 1..Len(orderColl) :
                                               orderColl[k].user_email = email}) :
                        Finish(r, 200, [email |-> email, orders |-> Limit(cur, ListLimit)])
    /\ UNCHANGED orderIdArg
    /\ ReadOnlyFrame

GetInvoice(r) ==
    /\ CanStart(r)
    /\ kind' = [kind EXCEPT ![r] = "invoice"]
    /\ \E oid \in OrderIdInputs :
         /\ orderIdArg' = [orderIdArg EXCEPT ![r] = Some(oid)]
         /\ IF DbIsNone THEN NotConfigured(r)
            ELSE \E ok \in StoreOutcomes :
                   IF ~ok THEN StoreError(r)
                   ELSE LET o == FindOneByOrderId(oid)
                        IN IF ~OrderFound(o) THEN Finish(r, 404, <<"Order not found">>)
                           ELSE Finish(r, 200,
                                  [inv |-> IF IsSome(Val(o).invoice_number)
                                             THEN Val(o).invoice_number ELSE <<"PENDING">>,
                                   billed_to |-> Val(o).user_email,
                                   items |-> Val(o).items,
                                   total |-> Val(o).amount])
    /\ ReadOnlyFrame

SendEmail(r) ==
    /\ CanStart(r)
    /\ kind' = [kind EXCEPT ![r] = "email"]
    /\ \E to \in Emails : Finish(r, 200, [status |-> "queued", to |-> to])
    /\ UNCHANGED orderIdArg
    /\ ReadOnlyFrame

ReadRoot(r) ==
    /\ CanStart(r)
    /\ kind' = [kind EXCEPT ![r] = "root"]
    /\ Finish(r, 200, [message |-> "TRI Backend Running"])
    /\ UNCHANGED orderIdArg
    /\ ReadOnlyFrame

Hello(r) ==
    /\ CanStart(r)
    /\ kind' = [kind EXCEPT ![r] = "hello"]
    /\ Finish(r, 200, [message |-> "Hello from TRI backend API!"])
    /\ UNCHANGED orderIdArg
    /\ ReadOnlyFrame

\* never raises: a failing list_collection_names() becomes a status string
TestDatabase(r) ==
    /\ CanStart(r)
    /\ kind' = [kind EXCEPT ![r] = "test"]
    /\ IF DbIsNone
         THEN Finish(r, 200, [database |-> "Available but not initialized",
                              collections |-> {}])
         ELSE \E ok \in StoreOutcomes :
                IF ~ok
                  THEN Finish(r, 200, [database |-> "Connected but Error",
                                       collections |-> {}])
                  ELSE Finish(r, 200,
                         [database |-> "Connected & Working",
                          collections |-> (IF orderColl # <<>> THEN {"order"} ELSE {}) \cup
                                          (IF seqColl # {} THEN {"invoicesequence"} ELSE {})])
    /\ UNCHANGED orderIdArg
    /\ ReadOnlyFrame

(* ------------------------------------------------------------------ Next *)
Next ==
    \/ Tick
    \/ \E r \in Reqs : CreateOrder_Insert(r)
    \/ \E r \in Reqs : CreateOrder_SetOrderId(r)
    \/ \E r \in Reqs : VerifyPayment_Find(r)
    \/ \E r \in Reqs : VerifyPayment_Allocate(r)
    \/ \E r \in Reqs : VerifyPayment_Update(r)
    \/ \E r \in Reqs : ListOrders(r)
    \/ \E r \in Reqs : GetInvoice(r)
    \/ \E r \in Reqs : SendEmail(r)
    \/ \E r \in Reqs : ReadRoot(r)
    \/ \E r \in Reqs : Hello(r)
    \/ \E r \in Reqs : TestDatabase(r)

Spec == Init /\ [][Next]_vars

(* ------------------------------------------------ a store holding orders *)
\* The k-th of n orders as completed create_order calls left them. emails:
\* all from one user, or alternating users. times: created_at rising with
\* insertion, falling (the wall clock was set back), or the first two equal.
StoredOrder(k, n, emails, times) ==
    LET id == [head |-> k, mid |-> 1, tail |-> k]
        at == IF times = "rising" THEN k
              ELSE IF times = "falling" THEN n + 1 - k
              ELSE IF k = 1 THEN 2 ELSE k
    IN [NewOrderDoc(id, IF emails = "one" \/ k % 2 = 1 THEN "a@tri" ELSE "b@tri", <<>>,
                    _order_total(<<>>), at)
          EXCEPT !.order_id = Some(GatewayOrderId(id))]

InitList ==
    /\ dbConfigured = TRUE
    /\ \E n \in 0..MaxStored, emails \in {"one", "two"},
          times \in {"rising", "falling", "tie"} :
         /\ orderColl = [k \in 1..n |-> StoredOrder(k, n, emails, times)]
         /\ clock = n
    /\ seqColl = {}
    /\ pc = [r \in Reqs |-> "idle"]
    /\ kind = [r \in Reqs |-> "none"]
    /\ order = [r \in Reqs |-> None]
    /\ insertedId = [r \in Reqs |-> None]
    /\ paymentArg = [r \in Reqs |-> None]
    /\ amount = [r \in Reqs |-> None]
    /\ orderIdArg = [r \in Reqs |-> None]
    /\ invoice = [r \in Reqs |-> None]
    /\ resp = [r \in Reqs |-> NoResp]
    /\ wrote = [r \in Reqs |-> FALSE]
    /\ allocated = <<>>
    /\ startNumber = 0

NextList == \E r \in Reqs : ListOrders(r)

SpecList == InitList /\ [][NextList]_vars

(* ------------------------------------------------------------ properties *)
NumOf(inv) == ParseDigits(inv.suffix)
Allocs == 1..Len(allocated)
OrderIdx == 1..Len(orderColl)
Stepped(r) == pc'[r] # pc[r]
\* the step is request r's find_one in verify_payment, given order_id oid
VerifyFindStep(r) == pc[r] = "idle" /\ kind'[r] = "verify"
AllocStep(r) == kind[r] = "verify" /\ pc[r] = "v_alloc" /\ Stepped(r)
UpdateStep(r) == kind[r] = "verify" /\ pc[r] = "v_update" /\ Stepped(r)
Raised(r) == resp'[r].status = 500

\* C1: no two successful allocations, however interleaved, return the same
\* post-increment counter value.
C1_DistinctAllocations ==
    \A i, j \in Allocs :
        i # j => /\ allocated[i].num # allocated[j].num
                 /\ allocated[i].inv # allocated[j].inv
                 /\ NumOf(allocated[i].inv) # NumOf(allocated[j].inv)

\* two requests have both allocated before either has updated its order
C1_Witness ==
    \E r1, r2 \in Reqs :
        /\ r1 # r2 /\ pc[r1] = "v_update" /\ pc[r2] = "v_update"
        /\ invoice[r1] # invoice[r2]

\* C2: from counter value k, the N allocations made so far returned exactly
\* k+1..k+N, the i-th in store order returning k+i, and last_number is k+N:
\* each allocation is one store step that adds 1 and returns the new value.
C2_ConsecutiveNumbers ==
    /\ \A i \in Allocs : allocated[i].num = startNumber + i
    /\ {allocated[i].num : i \in Allocs} =
         (startNumber + 1)..(startNumber + Len(allocated))
    /\ LastNumber = startNumber + Len(allocated)

C2_Witness ==
    /\ startNumber > 0
    /\ Len(allocated) = 2
    /\ allocated[1].by # allocated[2].by
    /\ pc[allocated[1].by] = "v_update" /\ pc[allocated[2].by] = "v_update"
    /\ LastNumber = startNumber + 2

\* C3: a verify_payment whose order_id matches no stored order ends at once
\* with 404 (or 500 when the find itself raises), allocates nothing, leaves
\* the counter collection as it was (absent stays absent) and changes no order.
C3_NotFoundAllocatesNothing ==
    [][\A r \in Reqs :
         (VerifyFindStep(r) /\ dbConfigured /\ Matches(Val(orderIdArg'[r])) = {})
           => /\ pc'[r] = "done"
              /\ resp'[r].status \in {404, 500}
              /\ resp'[r].status = 500 => resp'[r].body = <<"Internal Server Error", "idle">>
              /\ seqColl' = seqColl
              /\ allocated' = allocated
              /\ orderColl' = orderColl
              /\ wrote' = wrote]_vars

C3_Witness ==
    \E r \in Reqs :
        /\ kind[r] = "verify" /\ resp[r].status = 404
        /\ orderColl # <<>> /\ Matches(Val(orderIdArg[r])) = {}
        /\ seqColl = {} /\ allocated = <<>>

\* C4: when the allocation of a verify_payment raises, the request ends with
\* 500 at that step, without a retry and without having written or going on
\* to write the order: no order document changes.
C4_AllocFailureLeavesOrder ==
    [][\A r \in Reqs :
         (kind[r] = "verify" /\ pc[r] = "v_alloc" /\ Stepped(r) /\ Raised(r))
           => /\ pc'[r] = "done"
              /\ ~wrote[r] /\ ~wrote'[r]
              /\ orderColl' = orderColl
              /\ seqColl' = seqColl
              /\ allocated' = allocated]_vars

\* an order that was found, then not paid because the allocation raised
C4_Witness ==
    \E r \in Reqs :
        /\ kind[r] = "verify"
        /\ resp[r] = Resp(500, <<"Internal Server Error", "v_alloc">>)
        /\ ~wrote[r]
        /\ \E k \in OrderIdx : /\ orderColl[k].order_id = orderIdArg[r]
                                /\ orderColl[k].status = "created"
                                /\ orderColl[k].invoice_number = None

\* C5: a paid order stays paid, so created -> paid happens at most once per
\* order, and the step that makes an order paid is the update_one of a
\* verify_payment that found that order.
C5_PaidOnceByVerify ==
    [][\A k \in OrderIdx :
         /\ Len(orderColl') >= Len(orderColl)
         /\ orderColl'[k]._id = orderColl[k]._id
         /\ orderColl[k].status = "paid" => orderColl'[k].status = "paid"
         /\ (orderColl[k].status = "created" /\ orderColl'[k].status # "created")
              => /\ orderColl'[k].status = "paid"
                 /\ \E r \in Reqs : /\ UpdateStep(r)
                                     /\ Val(order[r])._id = orderColl[k]._id]_vars

\* an order created in this run has been paid
C5_Witness ==
    /\ startNumber = 0
    /\ \E k \in OrderIdx : orderColl[k].status = "paid"
    /\ \E r \in Reqs : kind[r] = "verify" /\ wrote[r] /\ resp[r].status = 200

\* r1's verify_payment has returned its number, and r2's verify_payment of the
\* same order found the order holding that number: the calls are in sequence
InSequence(r1, r2) ==
    /\ r1 # r2
    /\ kind[r1] = "verify" /\ pc[r1] = "done" /\ resp[r1].status = 200
    /\ kind[r2] = "verify" /\ pc[r2] \in {"v_alloc", "v_update"}
    /\ orderIdArg[r1] = orderIdArg[r2]
    /\ Val(order[r2]).invoice_number = resp[r1].body.invoice_number

\* C6: a second verify_payment of an order, made after a first has returned,
\* is not refused; once its update is done it answers 200 with a number
\* strictly greater than the first call's, the order holds the second number
\* in place of the first, and when no other request allocated the second
\* number is the first plus 1 and the counter stands 2 above its start.
C6_SecondVerifyOverwrites ==
    [][\A r1, r2 \in Reqs :
         (InSequence(r1, r2) /\ Stepped(r2) /\ ~Raised(r2))
           => LET first == Val(resp[r1].body.invoice_number)
              IN IF pc[r2] = "v_alloc"
                   THEN /\ pc'[r2] = "v_update"
                        /\ NumOf(Val(invoice'[r2])) > NumOf(first)
                   ELSE /\ pc'[r2] = "done" /\ resp'[r2].status = 200
                        /\ resp'[r2].body.invoice_number = invoice[r2]
                        /\ NumOf(Val(invoice[r2])) > NumOf(first)
                        /\ \A k \in OrderIdx :
                              orderColl[k]._id = Val(order[r2])._id
                                => /\ orderColl'[k].invoice_number = invoice[r2]
                                   /\ orderColl'[k].invoice_number # Some(first)
                                   /\ orderColl'[k].status = "paid"
                        /\ Len(allocated) = 2
                              => /\ NumOf(Val(invoice[r2])) = NumOf(first) + 1
                                 /\ LastNumber' = startNumber + 2]_vars

\* the second call is about to overwrite the number the first one stored
C6_Witness ==
    \E r1, r2 \in Reqs :
        /\ InSequence(r1, r2) /\ pc[r2] = "v_update"
        /\ \E k \in OrderIdx : /\ orderColl[k]._id = Val(order[r2])._id
                                /\ orderColl[k].invoice_number = resp[r1].body.invoice_number
        /\ Len(allocated) = 2

\* C7: the counter collection never holds more than one record and its id is
\* "seq"; the allocation that finds no record creates it with last_number = 1
\* and returns number 1, formatted with suffix 00001.
C7_FirstAllocation ==
    /\ [](Cardinality(seqColl) <= 1 /\ \A d \in seqColl : d._id = "seq")
    /\ [][(seqColl = {} /\ seqColl' # seqColl)
            => /\ seqColl' = {[_id |-> "seq", last_number |-> 1]}
               /\ Len(allocated') = Len(allocated) + 1
               /\ allocated'[Len(allocated')].num = 1
               /\ allocated'[Len(allocated')].inv.suffix = <<0, 0, 0, 0, 1>>
               /\ \E r \in Reqs : AllocStep(r)]_vars

C7_Witness ==
    /\ startNumber = 0
    /\ seqColl = {[_id |-> "seq", last_number |-> 1]}
    /\ Len(allocated) = 1
    /\ allocated[1].inv.suffix = <<0, 0, 0, 0, 1>>

\* C8: last_number is never negative and never decreases, the counter record
\* once present stays, and the only step that changes the counter collection
\* is the allocation of a verify_payment that found a stored order; it adds 1.
C8_CounterFrame ==
    [][/\ LastNumber >= 0 /\ LastNumber' >= LastNumber
       /\ seqColl # {} => seqColl' # {}
       /\ seqColl' # seqColl
            => /\ LastNumber' = LastNumber + 1
               /\ \E r \in Reqs :
                     /\ AllocStep(r)
                     /\ IsSome(order[r])
                     /\ \E k \in OrderIdx : orderColl[k]._id = Val(order[r])._id
       /\ \A r \in Reqs :
            (Stepped(r) /\ (kind'[r] \in {"create", "list", "invoice", "email",
                                          "root", "hello", "test"}))
              => seqColl' = seqColl]_vars

\* the counter has moved once while a request to another handler completed
C8_Witness ==
    /\ LastNumber = startNumber + 1
    /\ \E r \in Reqs : kind[r] \in {"create", "list", "invoice", "email",
                                      "root", "hello", "test"} /\ pc[r] = "done"

\* C9: every allocation after the first returns the previous number plus 1,
\* also when the year has changed in between; the identifier is TRI, the
\* wall-clock year of the allocation, and the number.
C9_GlobalAcrossYears ==
    [][\A r \in Reqs :
         (AllocStep(r) /\ ~Raised(r))
           => LET new == allocated'[Len(allocated')]
              IN /\ Len(allocated') = Len(allocated) + 1
                 /\ new.inv.prefix = "TRI"
                 /\ new.inv.year = YearOf(clock)
                 /\ NumOf(new.inv) = new.num
                 /\ new.num = LastNumber + 1
                 /\ allocated # <<>>
                      => /\ new.num = allocated[Len(allocated)].num + 1
                         /\ NumOf(new.inv) = NumOf(allocated[Len(allocated)].inv) + 1
                         /\ new.num > 1]_vars

\* two consecutive allocations carry different years
C9_Witness ==
    /\ Len(allocated) >= 2
    /\ allocated[1].inv.year # allocated[2].inv.year
    /\ allocated[2].num = allocated[1].num + 1

RECURSIVE Pow10(_)
Pow10(n) == IF n = 0 THEN 1 ELSE 10 * Pow10(n - 1)

\* C10: the suffix is the decimal numeral of the counter value, zero-padded
\* on the left to 5 digits and longer without padding when the value needs
\* more: from last_number = 99999 the allocation returns 100000 and leaves
\* last_number = 100000.
C10_SuffixWidens ==
    [][\A r \in Reqs :
         (AllocStep(r) /\ ~Raised(r))
           => LET new == allocated'[Len(allocated')]
                  sfx == new.inv.suffix
              IN /\ \A i \in 1..Len(sfx) : sfx[i] \in 0..9
                 /\ ParseDigits(sfx) = LastNumber'
                 /\ Len(sfx) >= PadWidth
                 /\ LastNumber' < Pow10(PadWidth) => Len(sfx) = PadWidth
                 /\ LastNumber' >= Pow10(PadWidth) => sfx[1] # 0
                 /\ LastNumber = 99999
                      => /\ LastNumber' = 100000
                         /\ sfx = <<1, 0, 0, 0, 0, 0>>]_vars

C10_Witness ==
    /\ LastNumber = 100000
    /\ allocated # <<>>
    /\ allocated[Len(allocated)].num = 100000
    /\ allocated[Len(allocated)].inv.suffix = <<1, 0, 0, 0, 0, 0>>

\* C11: every stored order has status created or paid, and no step removes
\* an order: the collection only grows and each document keeps its _id.
C11_OnlyCreatedOrPaid ==
    /\ [](\A k \in OrderIdx : orderColl[k].status \in {"created", "paid"})
    /\ [][/\ Len(orderColl') >= Len(orderColl)
          /\ \A k \in OrderIdx : orderColl'[k]._id = orderColl[k]._id]_vars

\* a created and a paid order are stored, after a verify_payment has written
C11_Witness ==
    /\ \E k \in OrderIdx : orderColl[k].status = "created"
    /\ \E k \in OrderIdx : orderColl[k].status = "paid"
    /\ \E r \in Reqs : kind[r] = "verify" /\ wrote[r]

\* request r allocated, then its update_one raised
UpdateFailed(r) ==
    kind[r] = "verify" /\ resp[r] = Resp(500, <<"Internal Server Error", "v_update">>)

\* C12: when the update_one of a verify_payment raises after its allocation,
\* nothing is rolled back: the step changes neither the counter nor any
\* order, the counter stays at or above the allocated number ever after, and
\* no other allocation returns that number.
C12_NoRollback ==
    /\ [](\A r \in Reqs : UpdateFailed(r) =>
            /\ ~wrote[r]
            /\ \E i \in Allocs :
                 /\ allocated[i].by = r
                 /\ LastNumber >= allocated[i].num
                 /\ \A j \in Allocs : j # i => allocated[j].num # allocated[i].num
                 /\ \A j \in Allocs : j > i => allocated[j].num > allocated[i].num)
    /\ [][\A r \in Reqs : (UpdateStep(r) /\ Raised(r)) =>
            /\ pc'[r] = "done"
            /\ seqColl' = seqColl
            /\ LastNumber' >= NumOf(Val(invoice[r]))
            /\ orderColl' = orderColl
            /\ allocated' = allocated]_vars

\* after a failed update another request allocated the next number, and the
\* order still holds the number it had before
C12_Witness ==
    \E r \in Reqs :
        /\ UpdateFailed(r)
        /\ Len(allocated) = 2
        /\ allocated[1].by = r /\ allocated[2].by # r
        /\ allocated[2].num = allocated[1].num + 1
        /\ orderColl[1].invoice_number = Some(FormatInvoice(YearOf(0), startNumber))

ListStep(r) == pc[r] = "idle" /\ kind'[r] = "list"

\* C13: a list_orders that answers returns stored orders of the given email
\* only, each once, at most 50 and as many as match up to 50, newest first
\* by created_at with no omitted match newer than a returned one, and the
\* empty list when none matches; it fails only when db is None or the find
\* raises, and changes neither orders nor counter.
C13_ListOrders ==
    [][\A r \in Reqs : ListStep(r) =>
         /\ orderColl' = orderColl /\ seqColl' = seqColl /\ allocated' = allocated
         /\ resp'[r].status \in {200, 500}
         /\ (resp'[r].status = 500 /\ dbConfigured)
              => resp'[r].body = <<"Internal Server Error", "idle">>
         /\ resp'[r].status = 200 =>
              LET email == resp'[r].body.email
                  got == resp'[r].body.orders
                  match == {k \in OrderIdx : orderColl[k].user_email = email}
              IN /\ \A i \in 1..Len(got) :
                       /\ got[i].user_email = email
                       /\ \E k \in match : orderColl[k] = got[i]
                 /\ \A i, j \in 1..Len(got) :
                       /\ i # j => got[i]._id # got[j]._id
                       /\ i < j => got[i].created_at >= got[j].created_at
                 /\ Len(got) <= 50
                 /\ Len(got) = IF Cardinality(match) < 50 THEN Cardinality(match) ELSE 50
                 /\ \A k \in match :
                       (\A i \in 1..Len(got) : got[i]._id # orderColl[k]._id)
                         => \A i \in 1..Len(got) : orderColl[k].created_at <= got[i].created_at
                 /\ match = {} => got = <<>>]_vars

\* more than 50 orders match and 50 were returned
C13_Witness ==
    \E r \in Reqs :
        /\ kind[r] = "list" /\ resp[r].status = 200
        /\ Len(resp[r].body.orders) = 50
        /\ Cardinality({k \in OrderIdx : orderColl[k].user_email = resp[r].body.email}) > 50

\* C14: when db is None the store is never touched: no order and no counter
\* record exists, nothing is allocated or written, and every create_order,
\* verify_payment, list_orders and get_invoice has ended at its first step
\* with 500 "Database not configured".
C14_NotConfigured ==
    ~dbConfigured =>
        /\ orderColl = <<>> /\ seqColl = {} /\ allocated = <<>>
        /\ \A r \in Reqs :
             /\ ~wrote[r]
             /\ kind[r] \in {"create", "verify", "list", "invoice"}
                  => /\ pc[r] = "done"
                     /\ resp[r].status = 500
                     /\ resp[r].body = <<"Database not configured">>

C14_Witness ==
    /\ ~dbConfigured
    /\ \E r1, r2 \in Reqs :
         /\ kind[r1] \in {"create", "verify"} /\ kind[r2] \in {"list", "invoice"}
         /\ resp[r1] = Resp(500, <<"Database not configured">>)
         /\ resp[r2] = Resp(500, <<"Database not configured">>)

\* the sum of price * quantity over items[k..], written out item by item
RECURSIVE PriceTimesQuantityFrom(_, _)
PriceTimesQuantityFrom(items, k) ==
    IF k > Len(items) THEN 0
    ELSE items[k].price * items[k].quantity + PriceTimesQuantityFrom(items, k + 1)

\* request r's insert_one was carried out in this step
InsertStep(r) == pc[r] = "idle" /\ pc'[r] = "c_update"

\* C15: the order create_order inserts has status created and an amount
\* equal to the sum of price * quantity over the submitted items (0 for an
\* empty list), and the amount in a 200 response of create_order is the
\* amount stored on the order the response names.
C15_OrderTotal ==
    /\ [][\A r \in Reqs : InsertStep(r) =>
            LET doc == orderColl'[Len(orderColl')]
            IN /\ Len(orderColl') = Len(orderColl) + 1
               /\ doc._id = Val(insertedId'[r])
               /\ doc.status = "created"
               /\ doc.amount = PriceTimesQuantityFrom(doc.items, 1)
               /\ doc.items = <<>> => doc.amount = 0]_vars
    /\ [](\A r \in Reqs : (kind[r] = "create" /\ resp[r].status = 200) =>
            \E k \in 1..Len(orderColl) :
                /\ orderColl[k]._id = resp[r].body._id
                /\ orderColl[k].amount = resp[r].body.amount
                /\ orderColl[k].amount = PriceTimesQuantityFrom(orderColl[k].items, 1))

C15_Witness ==
    \E r1, r2 \in Reqs :
        /\ kind[r1] = "create" /\ resp[r1].status = 200 /\ resp[r1].body.amount = 0
        /\ kind[r2] = "create" /\ resp[r2].status = 200 /\ resp[r2].body.amount = 10
        /\ \E k \in 1..Len(orderColl) :
             orderColl[k]._id = resp[r2].body._id /\ Len(orderColl[k].items) = 2

\* a store that holds a paid order and an order that awaits its payment
InitialCreatedOrder ==
    LET id == [head |-> 1, mid |-> 1, tail |-> 2]
    IN [NewOrderDoc(id, "b@tri", <<>>, _order_total(<<>>), 0)
          EXCEPT !.order_id = Some(GatewayOrderId(id))]

InitTwoOrders ==
    /\ dbConfigured = TRUE
    /\ clock = 0
    /\ seqColl \in {{[_id |-> SeqId, last_number |-> k]} : k \in StartNumbers}
    /\ orderColl = <<InitialPaidOrder(LastNumber), InitialCreatedOrder>>
    /\ pc = [r \in Reqs |-> "idle"]
    /\ kind = [r \in Reqs |-> "none"]
    /\ order = [r \in Reqs |-> None]
    /\ insertedId = [r \in Reqs |-> None]
    /\ paymentArg = [r \in Reqs |-> None]
    /\ amount = [r \in Reqs |-> None]
    /\ orderIdArg = [r \in Reqs |-> None]
    /\ invoice = [r \in Reqs |-> None]
    /\ resp = [r \in Reqs |-> NoResp]
    /\ wrote = [r \in Reqs |-> FALSE]
    /\ allocated = <<>>
    /\ startNumber = LastNumber

SpecTwoOrders == InitTwoOrders /\ [][Next]_vars

\* the orders that hold a stored invoice_number
Invoiced == {k \in 1..Len(orderColl) : IsSome(orderColl[k].invoice_number)}

\* C16: in every reachable state no two distinct orders hold the same stored
\* invoice_number.
C16_InvoiceNumbersUnique ==
    \A j, k \in Invoiced :
        orderColl[j].invoice_number = orderColl[k].invoice_number => j = k

\* two orders hold invoice numbers, one of them written by a verify_payment
\* that ran while another verify_payment was between its steps
C16_Witness ==
    /\ \E j, k \in Invoiced : j # k
    /\ \E r1, r2 \in Reqs :
         /\ r1 # r2 /\ wrote[r1] /\ wrote[r2]
         /\ orderIdArg[r1] # orderIdArg[r2]
         /\ \E i1, i2 \in 1..Len(allocated) :
              /\ i1 < i2 /\ allocated[i1].by = r1 /\ allocated[i2].by = r2
              /\ \E k \in Invoiced : /\ orderColl[k].order_id = orderIdArg[r1]
                                       /\ orderColl[k].invoice_number = Some(allocated[i1].inv)

\* the number in the invoice_number stored on order k
StoredNumber(coll, k) == NumOf(Val(coll[k].invoice_number))

\* request r is a verify_payment between its find_one and its response
InVerify(r) == kind[r] = "verify" /\ pc[r] \in {"v_alloc", "v_update"}

\* C17: across any interleaving of verify_payment calls on the same order
\* the number in the order's stored invoice_number never decreases, and once
\* all such calls have completed the stored invoice_number is the highest
\* number any of them returned.
C17_StoredNumberNeverDecreases ==
    /\ [][\A k \in Invoiced :
            /\ k <= Len(orderColl') /\ IsSome(orderColl'[k].invoice_number)
            /\ StoredNumber(orderColl', k) >= StoredNumber(orderColl, k)]_vars
    /\ []((\A r \in Reqs : ~InVerify(r)) =>
            \A r \in Reqs, k \in Invoiced :
                (kind[r] = "verify" /\ resp[r].status = 200
                   /\ orderColl[k].order_id = orderIdArg[r]
                   /\ Cardinality(Matches(Val(orderIdArg[r]))) = 1)
                => NumOf(Val(resp[r].body.invoice_number)) <= StoredNumber(orderColl, k))

\* C18: in every reachable state an order has status paid if and only if it
\* has an invoice_number and a payment_id stored; the update_one of
\* verify_payment sets the three together and create_order sets none.
C18_PaidIffInvoiced ==
    /\ [](\A k \in OrderIdx :
            /\ orderColl[k].status = "paid"
                 <=> (IsSome(orderColl[k].invoice_number) /\ IsSome(orderColl[k].payment_id))
            /\ IsSome(orderColl[k].invoice_number) <=> IsSome(orderColl[k].payment_id))
    /\ [][\A r \in Reqs : InsertStep(r) =>
            LET doc == orderColl'[Len(orderColl')]
            IN doc.status = "created" /\ doc.invoice_number = None /\ doc.payment_id = None]_vars

\* an order created and then paid in this run next to one still awaiting payment
C18_Witness ==
    \E j, k \in OrderIdx, r \in Reqs :
        /\ orderColl[j].status = "created" /\ orderColl[j].invoice_number = None
        /\ orderColl[k].status = "paid" /\ wrote[r]
        /\ orderColl[k].order_id = orderIdArg[r]
        /\ orderColl[k].invoice_number = resp[r].body.invoice_number

\* request r0 is a create_order that completed and returned the order_id
\* request r gave to verify_payment
CreatedFor(r0, r) ==
    /\ kind[r0] = "create" /\ resp[r0].status = 200
    /\ orderIdArg[r] = Some(resp[r0].body.order_id)

\* C19: verify_payment called with the order_id a completed create_order
\* returned succeeds and marks exactly the order that create_order created,
\* and no other; distinct stored orders never share an order_id; and an order
\* inserted but not yet given its order_id cannot be found or paid.
C19_VerifyMarksCreatedOrder ==
    /\ [](\A j, k \in OrderIdx :
            (j # k /\ IsSome(orderColl[j].order_id))
                => orderColl[j].order_id # orderColl[k].order_id)
    /\ [][\A r, r0 \in Reqs :
            /\ (VerifyFindStep(r) /\ CreatedFor(r0, r)' /\ ~Raised(r))
                 => /\ resp'[r].status # 404
                    /\ Val(order'[r])._id = resp[r0].body._id
            /\ (UpdateStep(r) /\ CreatedFor(r0, r) /\ ~Raised(r))
                 => \A k \in OrderIdx :
                        IF orderColl[k]._id = resp[r0].body._id
                          THEN /\ orderColl'[k].status = "paid"
                               /\ orderColl'[k].invoice_number = invoice[r]
                          ELSE orderColl'[k] = orderColl[k]]_vars
    /\ [][\A r \in Reqs :
            (VerifyFindStep(r) /\ pc'[r] = "v_alloc")
                => Val(order'[r]).order_id = orderIdArg'[r]]_vars
====
